---- MODULE Spec2Model ----
(***************************************************************************)
(* Model of the myStrom exporter: the UDP discovery engine                 *)
(* (pkg/discover/discover.go) and the scrape handlers (main.go).           *)
(*                                                                         *)
(* Init is the state of a process with discovery enabled, right after      *)
(* main has called discover.Initialize, registered the routes and started  *)
(* the HTTP server: the listen and update goroutines are running, the      *)
(* Device Table is an empty map, the channel is empty, all counters are 0. *)
(***************************************************************************)
EXTENDS Integers, Sequences, FiniteSets, TLC

(***************************************************************************)
(* Bounds of the model.                                                    *)
(***************************************************************************)
\* number of datagrams the socket delivers to the receive loop
MaxDatagrams == 3
\* number of scrape requests (device path and device_by_mac together)
MaxScrapes == 2
\* number of /discover requests
MaxDiscovers == 1
\* largest elapsed time of one Device Client call, in whole seconds
MaxDuration == 1
\* number of datagrams of a burst that fills the channel
MaxBurst == 11

(***************************************************************************)
(* Program constants.                                                      *)
(***************************************************************************)
\* make(chan Packet, 10)
ChanCap == 10
\* MystromReqStatus values (iota)
OK == 0
ErrorSocket == 1
ErrorTimeout == 2
ErrorParsingValue == 3
\* http.StatusBadRequest, http.StatusInternalServerError, http.StatusOK
StatusBadRequest == 400
StatusInternalServerError == 500
StatusOK == 200
\* the router's answer for a path without a registered route
StatusNotFound == 404

(***************************************************************************)
(* Inputs.                                                                 *)
(***************************************************************************)
\* datagrams seen on the discovery port: lengths 0, 5, 6, 7 and 8
Datagrams ==
    { <<>>,
      <<1, 2, 3, 4, 5>>,
      <<1, 2, 3, 4, 5, 6>>,
      <<1, 2, 3, 4, 5, 6, 2>>,
      <<1, 2, 3, 4, 5, 6, 2, 9>>,
      <<170, 187, 204, 221, 238, 255, 255>> }

\* senders of the datagrams: the *net.UDPAddr returned by ReadFromUDP,
\* IP already in its String() form
Senders ==
    { [IP |-> "10.0.0.5", Port |-> 1234],
      [IP |-> "10.0.0.6", Port |-> 4321] }

\* exporter address published in manifests (LocalAddress)
LocalAddress == "192.168.1.2:9452"

(***************************************************************************)
(* Packet and its formatting.                                              *)
(***************************************************************************)
\* the zero value of Packet: what `var message Packet` and a map miss yield
ZeroPacket == [SourceIP |-> "", Port |-> 0, MacAddress |-> <<>>, DeviceType |-> 0]

HexDigit == <<"0", "1", "2", "3", "4", "5", "6", "7",
              "8", "9", "a", "b", "c", "d", "e", "f">>

\* two lower-case hex digits of one byte
HexByte(b) == HexDigit[(b \div 16) + 1] \o HexDigit[(b % 16) + 1]

RECURSIVE JoinHex(_)
JoinHex(bs) ==
    IF Len(bs) = 0 THEN ""
    ELSE IF Len(bs) = 1 THEN HexByte(bs[1])
    ELSE HexByte(bs[1]) \o ":" \o JoinHex(Tail(bs))

\* net.HardwareAddr.String(): colon-separated lower-case hex, "" when empty
HardwareAddrString(mac) == JoinHex(mac)

\* the map key update() uses: msg.MacAddress.String()
MacKey(msg) == HardwareAddrString(msg.MacAddress)

\* fmt.Sprintf("%d", n) for the values a byte can take
RECURSIVE Decimal(_)
Decimal(n) ==
    IF n < 10 THEN HexDigit[n + 1]
    ELSE Decimal(n \div 10) \o HexDigit[(n % 10) + 1]

VARIABLES
    proc,          \* "running" | "crashed" (goroutine panic / runtime throw) | "exited"
    mainPc,        \* main: "serving" (blocked on <-c) | "closed" (ConnClose ran)
    connOpen,      \* connectionUDP is open
    listenPc,      \* listen: "read" (in ReadFromUDP) | "send" (at receive <- message) | "stopped"
    datagram,      \* inputBytes[:length] of the current loop iteration
    udpaddr,       \* the sender ReadFromUDP returned with it
    message,       \* listen's `message` variable
    nRead,         \* datagrams delivered so far
    decoded,       \* history: the Packets listen has built, in receive order
    channel,       \* the buffered channel, oldest first
    updPc,         \* update: "recv" (at <-channel) | "got" | "writing" (inside the map assignment)
    updMsg,        \* update's `msg`
    discoverlist,  \* the Device Table: key -> Packet
    disc,          \* the /discover requests, one goroutine each
    req,           \* the scrape requests (device path, device_by_mac), one goroutine each
    mystromRequestsCounterVec,  \* <<target, status>> -> count
    mystromDurationCounterVec,  \* target -> seconds
    enableDiscovery,  \* the discovery.enabled flag
    initialized,      \* discover.Initialize has made the table and bound the socket
    routes            \* the routes registered on the router

discoveryVars == <<proc, mainPc, connOpen, listenPc, datagram, udpaddr, message, nRead,
                   decoded, channel, updPc, updMsg, discoverlist>>

counterVars == <<mystromRequestsCounterVec, mystromDurationCounterVec>>

startVars == <<enableDiscovery, initialized, routes>>

vars == <<discoveryVars, disc, req, counterVars, startVars>>

(***************************************************************************)
(* listen                                                                  *)
(***************************************************************************)
\* length test of line 119
TooShort(bytes) == Len(bytes) < 6

\* a faulty decoding that takes the device type from the last byte
DecodeLastByte(bytes, addr) ==
    [SourceIP   |-> addr.IP,
     Port       |-> addr.Port,
     MacAddress |-> SubSeq(bytes, 1, 6),
     DeviceType |-> bytes[Len(bytes)]]

\* lines 122-132: the Packet built from a datagram and its sender
Decode(bytes, addr) ==
    [SourceIP   |-> addr.IP,
     Port       |-> addr.Port,
     MacAddress |-> SubSeq(bytes, 1, 6),
     DeviceType |-> bytes[7]]

\* One iteration of the receive loop up to the channel send: ReadFromUDP
\* returns a datagram, which is skipped, decoded, or makes the index
\* expression buffer.String()[6] panic (a panic in a goroutine ends the
\* process).  `limit` is the number of datagrams the network delivers.
ListenReadUpTo(bytes, addr, limit) ==
    /\ proc = "running"
    /\ listenPc = "read"
    /\ connOpen
    /\ nRead < limit
    /\ nRead' = nRead + 1
    /\ datagram' = bytes
    /\ udpaddr' = addr
    /\ IF TooShort(bytes)
       THEN /\ listenPc' = "read"
            /\ UNCHANGED <<message, decoded, proc>>
       ELSE IF Len(bytes) < 7
       THEN /\ proc' = "crashed"
            /\ UNCHANGED <<message, decoded, listenPc>>
       ELSE /\ message' = Decode(bytes, addr)
            /\ decoded' = Append(decoded, Decode(bytes, addr))
            /\ listenPc' = "send"
            /\ UNCHANGED proc
    /\ UNCHANGED <<mainPc, connOpen, channel, updPc, updMsg, discoverlist>>
    /\ UNCHANGED <<disc, req, counterVars>>
    /\ UNCHANGED startVars

ListenRead(bytes, addr) == ListenReadUpTo(bytes, addr, MaxDatagrams)

\* a faulty send that drops the packet when the channel is full
ListenSendDropping ==
    /\ proc = "running"
    /\ listenPc = "send"
    /\ channel' = IF Len(channel) < ChanCap THEN Append(channel, message) ELSE channel
    /\ listenPc' = "read"
    /\ UNCHANGED <<proc, mainPc, connOpen, datagram, udpaddr, message, nRead, decoded,
                   updPc, updMsg, discoverlist>>
    /\ UNCHANGED <<disc, req, counterVars>>
    /\ UNCHANGED startVars

\* receive <- message: blocks while the channel is full
ListenSend ==
    /\ proc = "running"
    /\ listenPc = "send"
    /\ Len(channel) < ChanCap
    /\ channel' = Append(channel, message)
    /\ listenPc' = "read"
    /\ UNCHANGED <<proc, mainPc, connOpen, datagram, udpaddr, message, nRead, decoded,
                   updPc, updMsg, discoverlist>>
    /\ UNCHANGED <<disc, req, counterVars>>
    /\ UNCHANGED startVars

\* ReadFromUDP fails once the socket is closed: log, return, deferred Close
ListenReadError ==
    /\ proc = "running"
    /\ listenPc = "read"
    /\ ~connOpen
    /\ listenPc' = "stopped"
    /\ UNCHANGED <<proc, mainPc, connOpen, datagram, udpaddr, message, nRead, decoded,
                   channel, updPc, updMsg, discoverlist>>
    /\ UNCHANGED <<disc, req, counterVars>>
    /\ UNCHANGED startVars

(***************************************************************************)
(* update                                                                  *)
(***************************************************************************)
\* a faulty upsert that keeps the record already stored under the key
UpsertKeepFirst(table, msg) ==
    [k \in (DOMAIN table) \cup {MacKey(msg)} |->
        IF k \in DOMAIN table THEN table[k] ELSE msg]

\* a faulty upsert that merges into the stored record instead of replacing it
UpsertMerge(table, msg) ==
    [k \in (DOMAIN table) \cup {MacKey(msg)} |->
        IF k # MacKey(msg) THEN table[k]
        ELSE IF k \in DOMAIN table
             THEN [msg EXCEPT !.Port = table[k].Port + msg.Port]
             ELSE msg]

\* discoverlist[msg.MacAddress.String()] = msg
Upsert(table, msg) ==
    [k \in (DOMAIN table) \cup {MacKey(msg)} |->
        IF k = MacKey(msg) THEN msg ELSE table[k]]

\* a faulty receive that takes the newest packet of the channel
UpdateRecvNewest ==
    /\ proc = "running"
    /\ updPc = "recv"
    /\ Len(channel) > 0
    /\ updMsg' = channel[Len(channel)]
    /\ channel' = SubSeq(channel, 1, Len(channel) - 1)
    /\ updPc' = "got"
    /\ UNCHANGED <<proc, mainPc, connOpen, listenPc, datagram, udpaddr, message, nRead, decoded,
                   discoverlist>>
    /\ UNCHANGED <<disc, req, counterVars>>
    /\ UNCHANGED startVars

\* msg := <-channel
UpdateRecv ==
    /\ proc = "running"
    /\ updPc = "recv"
    /\ Len(channel) > 0
    /\ updMsg' = Head(channel)
    /\ channel' = Tail(channel)
    /\ updPc' = "got"
    /\ UNCHANGED <<proc, mainPc, connOpen, listenPc, datagram, udpaddr, message, nRead, decoded,
                   discoverlist>>
    /\ UNCHANGED <<disc, req, counterVars>>
    /\ UNCHANGED startVars

\* The map assignment starts.  The map is not locked: every handler that is
\* reading the map at this moment now overlaps a write.
UpdateBeginWrite ==
    /\ proc = "running"
    /\ updPc = "got"
    /\ updPc' = "writing"
    /\ disc' = [i \in DOMAIN disc |->
                  IF disc[i].pc = "reading" THEN [disc[i] EXCEPT !.raced = TRUE]
                  ELSE disc[i]]
    /\ req' = [i \in DOMAIN req |->
                  IF req[i].pc = "lookup" THEN [req[i] EXCEPT !.raced = TRUE]
                  ELSE req[i]]
    /\ UNCHANGED <<proc, mainPc, connOpen, listenPc, datagram, udpaddr, message, nRead, decoded,
                   channel, updMsg, discoverlist, counterVars>>
    /\ UNCHANGED startVars

\* The map assignment completes; back to the top of the loop.
UpdateEndWrite ==
    /\ proc = "running"
    /\ updPc = "writing"
    /\ discoverlist' = Upsert(discoverlist, updMsg)
    /\ updPc' = "recv"
    /\ UNCHANGED <<proc, mainPc, connOpen, listenPc, datagram, udpaddr, message, nRead, decoded,
                   channel, updMsg, disc, req, counterVars>>
    /\ UNCHANGED startVars

(***************************************************************************)
(* Discover and discoverHandler                                            *)
(***************************************************************************)
\* a Go slice value: `var targetlist TargetsList` is the nil slice
NilSlice == [nil |-> TRUE, elems |-> <<>>]

\* append(slice, e): the result is never nil
AppendSlice(slice, e) == [nil |-> FALSE, elems |-> Append(slice.elems, e)]

\* a faulty entry with the instance and hardware-address labels exchanged
TargetsEntrySwapped(macaddr, data) ==
    [targets |-> <<LocalAddress>>,
     labels  |-> ("instance" :> macaddr)
              @@ ("__metrics_path__" :>
                      "/device_by_mac/" \o HardwareAddrString(data.MacAddress))
              @@ ("__mac_address" :> data.SourceIP)
              @@ ("__device_type" :> Decimal(data.DeviceType))]

\* the TargetsEntry built at lines 72-82 for one map entry
TargetsEntry(macaddr, data) ==
    [targets |-> <<LocalAddress>>,
     labels  |-> ("instance" :> data.SourceIP)
              @@ ("__metrics_path__" :>
                      "/device_by_mac/" \o HardwareAddrString(data.MacAddress))
              @@ ("__mac_address" :> macaddr)
              @@ ("__device_type" :> Decimal(data.DeviceType))]

\* the range loop of lines 71-83 over the map entries, visited in `order`
RECURSIVE RangeLoop(_, _, _)
RangeLoop(table, order, targetlist) ==
    IF order = <<>> THEN targetlist
    ELSE RangeLoop(table, Tail(order),
                   AppendSlice(targetlist, TargetsEntry(Head(order), table[Head(order)])))

\* json.Marshal of a TargetsList: a nil slice encodes as null, any other
\* slice as an array of its elements
JsonMarshal(slice) ==
    IF slice.nil THEN [kind |-> "null", items |-> <<>>]
    ELSE [kind |-> "array", items |-> slice.elems]

\* the orders in which a range loop may visit the keys of a map
RangeOrders(table) ==
    { o \in [1..Cardinality(DOMAIN table) -> DOMAIN table] :
        \A i, j \in DOMAIN o : i # j => o[i] # o[j] }

\* Discover(): the bytes it can return for a table
Discover(table) ==
    { JsonMarshal(RangeLoop(table, o, NilSlice)) : o \in RangeOrders(table) }

\* What an unsynchronised reader may find in the map while an assignment
\* overlaps its read: any part of the entries before or after the write.
Restrictions(table) ==
    { [k \in S |-> table[k]] : S \in SUBSET (DOMAIN table) }

RacyViews ==
    Restrictions(discoverlist)
        \cup (IF updPc = "writing" THEN Restrictions(Upsert(discoverlist, updMsg)) ELSE {})

\* a /discover request that has not arrived yet
IdleDiscover ==
    [pc |-> "idle", raced |-> FALSE, code |-> 0,
     body |-> [kind |-> "none", items |-> <<>>]]

\* http.ListenAndServe has been started and the process has not ended
ServerUp == proc = "running" /\ mainPc \in {"serving", "closed"}

\* a /discover request arrives where the route is not registered: the
\* router answers 404 and no handler runs
DiscoverNotFound(i) ==
    /\ ServerUp
    /\ "discover" \notin routes
    /\ disc[i].pc = "idle"
    /\ \A j \in DOMAIN disc : j < i => disc[j].pc # "idle"
    /\ disc' = [disc EXCEPT ![i] = [@ EXCEPT !.pc = "done", !.code = StatusNotFound]]
    /\ UNCHANGED <<discoveryVars, req, counterVars, startVars>>

\* a /discover request arrives: discoverHandler calls Discover, which starts
\* to range over the map
DiscoverBegin(i) ==
    /\ ServerUp
    /\ "discover" \in routes
    /\ disc[i].pc = "idle"
    /\ \A j \in DOMAIN disc : j < i => disc[j].pc # "idle"
    /\ disc' = [disc EXCEPT ![i] = [@ EXCEPT !.pc = "reading",
                                             !.raced = (updPc = "writing")]]
    /\ UNCHANGED <<discoveryVars, req, counterVars>>
    /\ UNCHANGED startVars

\* the range loop ends, the list is marshalled and written with status 200
DiscoverEnd(i) ==
    /\ proc = "running"
    /\ disc[i].pc = "reading"
    /\ ~disc[i].raced
    /\ \E data \in Discover(discoverlist) :
          disc' = [disc EXCEPT ![i] = [@ EXCEPT !.pc = "done",
                                                !.code = StatusOK,
                                                !.body = data]]
    /\ UNCHANGED <<discoveryVars, req, counterVars>>
    /\ UNCHANGED startVars

\* the same, when a map assignment overlapped the loop: the runtime may
\* detect the concurrent access and abort the process, or the loop ends
\* having seen some mixture of the entries
DiscoverEndRaced(i) ==
    /\ proc = "running"
    /\ disc[i].pc = "reading"
    /\ disc[i].raced
    /\ \/ /\ proc' = "crashed"
          /\ UNCHANGED disc
       \/ /\ \E view \in RacyViews : \E data \in Discover(view) :
                disc' = [disc EXCEPT ![i] = [@ EXCEPT !.pc = "done",
                                                      !.code = StatusOK,
                                                      !.body = data]]
          /\ UNCHANGED proc
    /\ UNCHANGED <<mainPc, connOpen, listenPc, datagram, udpaddr, message, nRead, decoded,
                   channel, updPc, updMsg, discoverlist, req, counterVars>>
    /\ UNCHANGED startVars

(***************************************************************************)
(* TargetByMacaddr, scrapeHandlerByMac, scrapeHandler                      *)
(***************************************************************************)
\* texts of the errors Exporter.Scrape returns
ScrapeErrors ==
    { "unable to connect with target: connection refused",
      "unable to connect with target: dial tcp: i/o timeout",
      "read tcp: i/o timeout",
      "unable to decode switch report: invalid character" }

\* hardware addresses asked for on /device_by_mac/{macaddr}
MacRequests == { "01:02:03:04:05:06", "aa:bb:cc:dd:ee:ff", "00:00:00:00:00:00" }

\* the values of the `target` query parameter of a request (<<>>: none)
TargetQueries == { <<>>, <<"">>, <<"10.0.0.9">>, <<"10.0.0.5">> }

\* every target a scrape can be made for
Targets == { "10.0.0.9", "10.0.0.5", "10.0.0.6" }

Statuses == { OK, ErrorSocket, ErrorTimeout, ErrorParsingValue }

\* url.Values.Get: the first value, "" when there is none
QueryGet(values) == IF Len(values) = 0 THEN "" ELSE values[1]

\* a faulty Set that behaves as url.Values.Add: a value already there stays
\* the first
QuerySetAdd(values, v) == Append(values, v)

\* url.Values.Set: replaces whatever was there by the one value
QuerySet(values, v) == <<v>>

\* strings.Contains
Contains(str, substr) ==
    \E i \in 1..(Len(str) - Len(substr) + 1) :
        SubSeq(str, i, i + Len(substr) - 1) = substr

\* a faulty lookup that returns the record's hardware address
TargetByMacaddrWrongField(table, macaddr) ==
    HardwareAddrString((IF macaddr \in DOMAIN table THEN table[macaddr]
                        ELSE ZeroPacket).MacAddress)

\* discoverlist[macaddr].SourceIP: a missing key reads as the zero Packet
TargetByMacaddr(table, macaddr) ==
    (IF macaddr \in DOMAIN table THEN table[macaddr] ELSE ZeroPacket).SourceIP

\* a faulty classification that never reaches the final else
ClassifyNoParseError(err) ==
    IF Contains(err, "unable to connect with target") THEN ErrorSocket
    ELSE ErrorTimeout

\* the if / else-if / else of lines 164-170
Classify(err) ==
    IF Contains(err, "unable to connect with target") THEN ErrorSocket
    ELSE IF Contains(err, "i/o timeout") THEN ErrorTimeout
    ELSE ErrorParsingValue

\* a faulty counter whose update overwrites what another request has added
CounterAddLost(vec, labels, v) == [vec EXCEPT ![labels] = v]

\* CounterVec.WithLabelValues(...).Inc() / .Add(v): one atomic addition
CounterAdd(vec, labels, v) == [vec EXCEPT ![labels] = @ + v]

\* a scrape request that has not arrived yet
IdleRequest ==
    [pc |-> "idle", route |-> "", macaddr |-> "", query |-> <<>>, target |-> "",
     raced |-> FALSE, calls |-> 0, err |-> "", duration |-> 0,
     code |-> 0, registry |-> FALSE, body |-> ""]

\* a faulty entry that answers 400 but goes on to scrape
ScrapeHandlerEntryNoReturn(r, values) ==
    LET target == QueryGet(values) IN
    IF target = ""
    THEN [r EXCEPT !.query = values, !.target = target, !.pc = "scraping",
                   !.code = StatusBadRequest,
                   !.body = "'target' parameter must be specified",
                   !.calls = @ + 1]
    ELSE [r EXCEPT !.query = values, !.target = target, !.pc = "scraping",
                   !.calls = @ + 1]

\* scrapeHandler lines 151-161: read the target; without one answer 400,
\* else build the exporter and call Scrape (the Device Client)
ScrapeHandlerEntry(r, values) ==
    LET target == QueryGet(values) IN
    IF target = ""
    THEN [r EXCEPT !.query = values, !.target = target, !.pc = "done",
                   !.code = StatusBadRequest,
                   !.body = "'target' parameter must be specified"]
    ELSE [r EXCEPT !.query = values, !.target = target, !.pc = "scraping",
                   !.calls = @ + 1]

\* a request on the device path
DeviceRequest(i, values) ==
    /\ ServerUp
    /\ "device" \in routes
    /\ req[i].pc = "idle"
    /\ \A j \in DOMAIN req : j < i => req[j].pc # "idle"
    /\ req' = [req EXCEPT ![i] = ScrapeHandlerEntry([@ EXCEPT !.route = "device"], values)]
    /\ UNCHANGED <<discoveryVars, disc, counterVars>>
    /\ UNCHANGED startVars

\* a request on /device_by_mac/{macaddr} where the route is not registered:
\* the router answers 404 and no handler runs
ByMacNotFound(i, macaddr) ==
    /\ ServerUp
    /\ "bymac" \notin routes
    /\ req[i].pc = "idle"
    /\ \A j \in DOMAIN req : j < i => req[j].pc # "idle"
    /\ req' = [req EXCEPT ![i] = [@ EXCEPT !.route = "bymac", !.pc = "done",
                                           !.macaddr = macaddr,
                                           !.code = StatusNotFound]]
    /\ UNCHANGED <<discoveryVars, disc, counterVars, startVars>>

\* a request on /device_by_mac/{macaddr}: scrapeHandlerByMac starts the
\* map read of TargetByMacaddr
ByMacRequest(i, macaddr, values) ==
    /\ ServerUp
    /\ "bymac" \in routes
    /\ req[i].pc = "idle"
    /\ \A j \in DOMAIN req : j < i => req[j].pc # "idle"
    /\ req' = [req EXCEPT ![i] = [@ EXCEPT !.route = "bymac", !.pc = "lookup",
                                           !.macaddr = macaddr, !.query = values,
                                           !.raced = (updPc = "writing")]]
    /\ UNCHANGED <<discoveryVars, disc, counterVars>>
    /\ UNCHANGED startVars

\* a faulty lookup whose map read stores a zero record under a key it misses
ByMacLookupInserting(i) ==
    /\ proc = "running"
    /\ req[i].pc = "lookup"
    /\ ~req[i].raced
    /\ req' = [req EXCEPT ![i] =
                 ScrapeHandlerEntry(@, QuerySet(@.query,
                                        TargetByMacaddr(discoverlist, @.macaddr)))]
    /\ discoverlist' =
          [k \in (DOMAIN discoverlist) \cup {req[i].macaddr} |->
              IF k \in DOMAIN discoverlist THEN discoverlist[k] ELSE ZeroPacket]
    /\ UNCHANGED <<proc, mainPc, connOpen, listenPc, datagram, udpaddr, message, nRead, decoded,
                   channel, updPc, updMsg, disc, counterVars>>
    /\ UNCHANGED startVars

\* the map read returns; the target is set in the query and scrapeHandler runs
ByMacLookup(i) ==
    /\ proc = "running"
    /\ req[i].pc = "lookup"
    /\ ~req[i].raced
    /\ req' = [req EXCEPT ![i] =
                 ScrapeHandlerEntry(@, QuerySet(@.query,
                                        TargetByMacaddr(discoverlist, @.macaddr)))]
    /\ UNCHANGED <<discoveryVars, disc, counterVars>>
    /\ UNCHANGED startVars

\* the same, when a map assignment overlapped the read
ByMacLookupRaced(i) ==
    /\ proc = "running"
    /\ req[i].pc = "lookup"
    /\ req[i].raced
    /\ \/ /\ proc' = "crashed"
          /\ UNCHANGED req
       \/ /\ \E view \in RacyViews :
                req' = [req EXCEPT ![i] =
                          ScrapeHandlerEntry(@, QuerySet(@.query,
                                                 TargetByMacaddr(view, @.macaddr)))]
          /\ UNCHANGED proc
    /\ UNCHANGED <<mainPc, connOpen, listenPc, datagram, udpaddr, message, nRead, decoded,
                   channel, updPc, updMsg, discoverlist, disc, counterVars>>
    /\ UNCHANGED startVars

\* a faulty error path without the return of line 177
ScrapeFailNoReturn(i, err) ==
    /\ proc = "running"
    /\ req[i].pc = "scraping"
    /\ mystromRequestsCounterVec' =
          CounterAdd(mystromRequestsCounterVec, <<req[i].target, Classify(err)>>, 1)
    /\ req' = [req EXCEPT ![i] =
                 [@ EXCEPT !.pc = "counted", !.err = err,
                           !.code = StatusInternalServerError,
                           !.body = "failed to scrape target '" \o req[i].target
                                       \o "': " \o err]]
    /\ UNCHANGED <<discoveryVars, disc, mystromDurationCounterVec>>
    /\ UNCHANGED startVars

\* Scrape returned an error (lines 163-178): count it under its kind,
\* answer 500 with the target and the cause, return
ScrapeFail(i, err) ==
    /\ proc = "running"
    /\ req[i].pc = "scraping"
    /\ mystromRequestsCounterVec' =
          CounterAdd(mystromRequestsCounterVec, <<req[i].target, Classify(err)>>, 1)
    /\ req' = [req EXCEPT ![i] =
                 [@ EXCEPT !.pc = "done", !.err = err,
                           !.code = StatusInternalServerError,
                           !.body = "failed to scrape target '" \o req[i].target
                                       \o "': " \o err]]
    /\ UNCHANGED <<discoveryVars, disc, mystromDurationCounterVec>>
    /\ UNCHANGED startVars

\* Scrape returned a gatherer (line 179): add the elapsed time
ScrapeSucceed(i, duration) ==
    /\ proc = "running"
    /\ req[i].pc = "scraping"
    /\ mystromDurationCounterVec' =
          CounterAdd(mystromDurationCounterVec, req[i].target, duration)
    /\ req' = [req EXCEPT ![i] = [@ EXCEPT !.pc = "counted", !.duration = duration]]
    /\ UNCHANGED <<discoveryVars, disc, mystromRequestsCounterVec>>
    /\ UNCHANGED startVars

\* lines 180-182: count the request as OK and serve the registry
ScrapeServe(i) ==
    /\ proc = "running"
    /\ req[i].pc = "counted"
    /\ mystromRequestsCounterVec' =
          CounterAdd(mystromRequestsCounterVec, <<req[i].target, OK>>, 1)
    /\ req' = [req EXCEPT ![i] = [@ EXCEPT !.pc = "done", !.registry = TRUE]]
    /\ UNCHANGED <<discoveryVars, disc, mystromDurationCounterVec>>
    /\ UNCHANGED startVars

(***************************************************************************)
(* main: the interrupt path                                                *)
(***************************************************************************)
\* lines 101-104: discover.Initialize when discovery is enabled: the table
\* is made, the socket bound, listen and update are started
MainInitialize ==
    /\ proc = "running"
    /\ mainPc = "start"
    /\ mainPc' = "initialized"
    /\ IF enableDiscovery
       THEN /\ initialized' = TRUE
            /\ connOpen' = TRUE
            /\ listenPc' = "read"
            /\ updPc' = "recv"
       ELSE UNCHANGED <<initialized, connOpen, listenPc, updPc>>
    /\ UNCHANGED <<proc, datagram, udpaddr, message, nRead, decoded, channel, updMsg,
                   discoverlist, disc, req, counterVars, enableDiscovery, routes>>

\* a faulty router set-up that registers the discovery routes whatever the flag
RegisteredRoutesAlways == {"device", "bymac", "discover"}

\* lines 106-116: the routes main registers
RegisteredRoutes ==
    {"device"} \cup (IF enableDiscovery THEN {"bymac", "discover"} ELSE {})

MainRoutes ==
    /\ proc = "running"
    /\ mainPc = "initialized"
    /\ mainPc' = "routed"
    /\ routes' = RegisteredRoutes
    /\ UNCHANGED <<proc, connOpen, listenPc, datagram, udpaddr, message, nRead, decoded,
                   channel, updPc, updMsg, discoverlist, disc, req, counterVars,
                   enableDiscovery, initialized>>

\* lines 118-133: the deferred calls are registered, the HTTP server is
\* started in its goroutine and main blocks on <-c
MainServe ==
    /\ proc = "running"
    /\ mainPc = "routed"
    /\ mainPc' = "serving"
    /\ UNCHANGED <<proc, connOpen, listenPc, datagram, udpaddr, message, nRead, decoded,
                   channel, updPc, updMsg, discoverlist, disc, req, counterVars,
                   startVars>>

\* a faulty shutdown that ends the process without running ConnClose
ExitWithoutClose ==
    /\ proc = "running"
    /\ mainPc = "serving"
    /\ proc' = "exited"
    /\ UNCHANGED <<mainPc, connOpen, listenPc, datagram, udpaddr, message, nRead, decoded, channel,
                   updPc, updMsg, discoverlist, disc, req, counterVars>>
    /\ UNCHANGED startVars

\* a faulty ConnClose that also empties the table
ConnCloseClearing ==
    /\ proc = "running"
    /\ mainPc = "serving"
    /\ enableDiscovery
    /\ mainPc' = "closed"
    /\ connOpen' = FALSE
    /\ discoverlist' = <<>>
    /\ UNCHANGED <<proc, listenPc, datagram, udpaddr, message, nRead, decoded, channel, updPc,
                   updMsg, disc, req, counterVars>>
    /\ UNCHANGED startVars

\* <-c returns; the deferred discover.ConnClose(), registered when discovery
\* is enabled, closes the socket
ConnClose ==
    /\ proc = "running"
    /\ mainPc = "serving"
    /\ enableDiscovery
    /\ mainPc' = "closed"
    /\ connOpen' = FALSE
    /\ UNCHANGED <<proc, listenPc, datagram, udpaddr, message, nRead, decoded, channel, updPc,
                   updMsg, discoverlist, disc, req, counterVars>>
    /\ UNCHANGED startVars

\* the deferred os.Exit(0), after ConnClose where that was deferred
Exit ==
    /\ proc = "running"
    /\ mainPc = "closed" \/ (mainPc = "serving" /\ ~enableDiscovery)
    /\ proc' = "exited"
    /\ UNCHANGED <<mainPc, connOpen, listenPc, datagram, udpaddr, message, nRead, decoded, channel,
                   updPc, updMsg, discoverlist, disc, req, counterVars>>
    /\ UNCHANGED startVars

(***************************************************************************)
(* The specifications                                                      *)
(***************************************************************************)
Init ==
    /\ proc = "running"
    /\ mainPc = "serving"
    /\ connOpen = TRUE
    /\ listenPc = "read"
    /\ datagram = <<>>
    /\ udpaddr = [IP |-> "", Port |-> 0]
    /\ message = ZeroPacket
    /\ nRead = 0
    /\ decoded = <<>>
    /\ channel = <<>>
    /\ updPc = "recv"
    /\ updMsg = ZeroPacket
    /\ discoverlist = <<>>
    /\ disc = [i \in 1..MaxDiscovers |-> IdleDiscover]
    /\ req = [i \in 1..MaxScrapes |-> IdleRequest]
    /\ mystromRequestsCounterVec = [l \in Targets \X Statuses |-> 0]
    /\ mystromDurationCounterVec = [t \in Targets |-> 0]
    /\ enableDiscovery = TRUE
    /\ initialized = TRUE
    /\ routes = {"device", "bymac", "discover"}

\* the state when main begins, before line 101, with either value of the flag
InitMain ==
    /\ proc = "running"
    /\ mainPc = "start"
    /\ connOpen = FALSE
    /\ listenPc = "unstarted"
    /\ datagram = <<>>
    /\ udpaddr = [IP |-> "", Port |-> 0]
    /\ message = ZeroPacket
    /\ nRead = 0
    /\ decoded = <<>>
    /\ channel = <<>>
    /\ updPc = "unstarted"
    /\ updMsg = ZeroPacket
    /\ discoverlist = <<>>
    /\ disc = [i \in 1..MaxDiscovers |-> IdleDiscover]
    /\ req = [i \in 1..MaxScrapes |-> IdleRequest]
    /\ mystromRequestsCounterVec = [l \in Targets \X Statuses |-> 0]
    /\ mystromDurationCounterVec = [t \in Targets |-> 0]
    /\ enableDiscovery \in BOOLEAN
    /\ initialized = FALSE
    /\ routes = {}

Listen ==
    \/ \E bytes \in Datagrams, addr \in Senders : ListenRead(bytes, addr)
    \/ ListenSend
    \/ ListenReadError

Update ==
    \/ UpdateRecv
    \/ UpdateBeginWrite
    \/ UpdateEndWrite

DiscoverHandler ==
    \E i \in 1..MaxDiscovers :
        \/ DiscoverBegin(i)
        \/ DiscoverEnd(i)
        \/ DiscoverEndRaced(i)

ScrapeHandler ==
    \E i \in 1..MaxScrapes :
        \/ \E values \in TargetQueries : DeviceRequest(i, values)
        \/ \E macaddr \in MacRequests, values \in TargetQueries :
              ByMacRequest(i, macaddr, values)
        \/ ByMacLookup(i)
        \/ ByMacLookupRaced(i)
        \/ \E err \in ScrapeErrors : ScrapeFail(i, err)
        \/ \E duration \in 0..MaxDuration : ScrapeSucceed(i, duration)
        \/ ScrapeServe(i)

\* the router's answer on the paths main has not registered
NotFoundHandler ==
    \/ \E i \in 1..MaxDiscovers : DiscoverNotFound(i)
    \/ \E i \in 1..MaxScrapes : \E macaddr \in MacRequests : ByMacNotFound(i, macaddr)

Main ==
    \/ MainInitialize
    \/ MainRoutes
    \/ MainServe
    \/ ConnClose
    \/ Exit

Next ==
    \/ Listen
    \/ Update
    \/ DiscoverHandler
    \/ ScrapeHandler
    \/ NotFoundHandler
    \/ Main

\* the whole process from the start of main; the properties below are
\* checked under the specifications that follow, each the part of Next its
\* claims are about
Spec == InitMain /\ [][Next]_vars

\* the discovery engine and the manifest requests while the process serves
\* (no interrupt, no scrape traffic)
NextDiscovery ==
    \/ \E bytes \in Datagrams, addr \in Senders : ListenRead(bytes, addr)
    \/ ListenSend
    \/ Update
    \/ DiscoverHandler

SpecDiscovery == Init /\ [][NextDiscovery]_vars

\* the scrape handlers while no device has announced itself
NextScrape ==
    \E i \in 1..MaxScrapes :
        \/ \E values \in TargetQueries : DeviceRequest(i, values)
        \/ \E macaddr \in MacRequests, values \in TargetQueries :
              ByMacRequest(i, macaddr, values)
        \/ ByMacLookup(i)
        \/ \E err \in ScrapeErrors : ScrapeFail(i, err)
        \/ \E duration \in 0..MaxDuration : ScrapeSucceed(i, duration)
        \/ ScrapeServe(i)

SpecScrape == Init /\ [][NextScrape]_vars

\* scrapes by hardware address, with one device announcing itself from two
\* addresses while the requests are served
NextByMac ==
    \/ \E addr \in Senders : ListenRead(<<1, 2, 3, 4, 5, 6, 2>>, addr)
    \/ ListenSend
    \/ Update
    \/ \E i \in 1..MaxScrapes :
          \/ \E macaddr \in {"01:02:03:04:05:06", "00:00:00:00:00:00"} :
                ByMacRequest(i, macaddr, <<"10.0.0.9">>)
          \/ ByMacLookup(i)
          \/ ByMacLookupRaced(i)
          \/ ScrapeFail(i, "read tcp: i/o timeout")
          \/ ScrapeSucceed(i, MaxDuration)
          \/ ScrapeServe(i)

SpecByMac == Init /\ [][NextByMac]_vars

\* a burst of announcements of one device from two addresses, enough to
\* fill the channel
NextBurst ==
    \/ \E addr \in Senders : ListenReadUpTo(<<1, 2, 3, 4, 5, 6, 2>>, addr, MaxBurst)
    \/ ListenSend
    \/ Update

SpecBurst == Init /\ [][NextBurst]_vars

\* the discovery engine through an interrupt: announcements of one device
\* from two addresses, then ConnClose and the exit of the process
NextShutdown ==
    \/ \E addr \in Senders : ListenRead(<<1, 2, 3, 4, 5, 6, 2>>, addr)
    \/ ListenSend
    \/ ListenReadError
    \/ Update
    \/ ConnClose
    \/ Exit

SpecShutdown == Init /\ [][NextShutdown]_vars

\* the discovery engine end to end, its two goroutines scheduled fairly:
\* announcements of two devices, one datagram of 6 bytes, /discover
\* requests, and the interrupt
NextDelivery ==
    \/ \E bytes \in { <<1, 2, 3, 4, 5, 6, 2>>, <<1, 2, 3, 4, 5, 6>>,
                      <<170, 187, 204, 221, 238, 255, 255>> } :
          \E addr \in Senders : ListenRead(bytes, addr)
    \/ ListenSend
    \/ Update
    \/ DiscoverHandler
    \/ ConnClose
    \/ Exit

SpecDelivery ==
    Init /\ [][NextDelivery]_vars /\ WF_vars(ListenSend) /\ WF_vars(Update)

\* every goroutine that touches the Device Table, and the interrupt:
\* announcements of two devices, /discover, by-mac and device requests
NextTable ==
    \/ ListenRead(<<1, 2, 3, 4, 5, 6, 2>>, [IP |-> "10.0.0.5", Port |-> 1234])
    \/ ListenRead(<<170, 187, 204, 221, 238, 255, 255>>, [IP |-> "10.0.0.6", Port |-> 4321])
    \/ ListenSend
    \/ Update
    \/ DiscoverHandler
    \/ \E i \in 1..MaxScrapes :
          \/ DeviceRequest(i, <<"10.0.0.9">>)
          \/ \E macaddr \in {"01:02:03:04:05:06", "00:00:00:00:00:00"} :
                ByMacRequest(i, macaddr, <<>>)
          \/ ByMacLookup(i)
          \/ ByMacLookupRaced(i)
          \/ ScrapeFail(i, "read tcp: i/o timeout")
    \/ ConnClose

SpecTable == Init /\ [][NextTable]_vars

\* the process from the start of main to its exit, with discovery enabled
\* or disabled: start-up, announcements of one device, requests on the
\* three paths, and the interrupt
NextMain ==
    \/ Main
    \/ ListenRead(<<1, 2, 3, 4, 5, 6, 2>>, [IP |-> "10.0.0.5", Port |-> 1234])
    \/ ListenSend
    \/ ListenReadError
    \/ Update
    \/ DiscoverHandler
    \/ \E i \in 1..MaxDiscovers : DiscoverNotFound(i)
    \/ \E i \in 1..MaxScrapes :
          \/ DeviceRequest(i, <<"10.0.0.9">>)
          \/ ByMacNotFound(i, "01:02:03:04:05:06")
          \/ ByMacRequest(i, "01:02:03:04:05:06", <<>>)
          \/ ByMacLookup(i)
          \/ ByMacLookupRaced(i)
          \/ ScrapeFail(i, "read tcp: i/o timeout")

SpecMain == InitMain /\ [][NextMain]_vars

(***************************************************************************)
(* Properties                                                              *)
(***************************************************************************)

\* C1: a datagram shorter than 7 bytes is silently discarded: nothing is
\* enqueued, the Device Table is unchanged, the process does not crash and
\* the receive loop is back in ReadFromUDP.
C1_ShortDatagramDiscarded ==
    [][(nRead' = nRead + 1 /\ Len(datagram') < 7)
         => /\ listenPc' = "read"
            /\ proc' = "running"
            /\ channel' = channel
            /\ discoverlist' = discoverlist]_vars

\* C2: no handler reads the Device Table (Discover's range loop,
\* TargetByMacaddr's map read) while update is inside its map assignment.
C2_ReadersExcludeWriter ==
    ~(/\ updPc = "writing"
      /\ \/ \E i \in DOMAIN disc : disc[i].pc = "reading"
         \/ \E i \in DOMAIN req : req[i].pc = "lookup")

\* the hardware-address keys of the packets decoded so far
DecodedKeys == { MacKey(decoded[i]) : i \in DOMAIN decoded }

\* the position of the last decoded packet with key k
LastDecoded(k) ==
    CHOOSE i \in DOMAIN decoded :
        /\ MacKey(decoded[i]) = k
        /\ \A j \in DOMAIN decoded : MacKey(decoded[j]) = k => j <= i

\* no packet with key k is on its way from listen to the table
PassedThrough(k) ==
    /\ ~(listenPc = "send" /\ MacKey(message) = k)
    /\ \A i \in DOMAIN channel : MacKey(channel[i]) # k
    /\ ~(updPc \in {"got", "writing"} /\ MacKey(updMsg) = k)

\* C3: last write wins in receive order: once every packet decoded for a
\* hardware address has passed through the queue, the table holds for that
\* address the record of the packet received last, whole (no field of an
\* earlier packet survives).
C3_LastWriteWins ==
    \A k \in DecodedKeys :
        PassedThrough(k) =>
            /\ k \in DOMAIN discoverlist
            /\ discoverlist[k] = decoded[LastDecoded(k)]

\* C3 witness: two packets with one hardware address and different source
\* addresses have both passed through the queue, and the table holds the
\* source address of the second.
C3_Witness ==
    \E i, j \in DOMAIN decoded :
        /\ i < j
        /\ MacKey(decoded[i]) = MacKey(decoded[j])
        /\ decoded[i].SourceIP # decoded[j].SourceIP
        /\ j = LastDecoded(MacKey(decoded[j]))
        /\ PassedThrough(MacKey(decoded[j]))
        /\ discoverlist[MacKey(decoded[j])].SourceIP = decoded[j].SourceIP

\* update is about to store a packet equal to the record its key already holds
SamePacketAgain ==
    /\ updPc = "writing"
    /\ MacKey(updMsg) \in DOMAIN discoverlist
    /\ discoverlist[MacKey(updMsg)] = updMsg

\* C4: the upsert is idempotent: storing a packet equal to the record
\* already held under its key leaves the whole table as it was.
C4_UpsertIdempotent ==
    [][(SamePacketAgain /\ updPc' = "recv") => discoverlist' = discoverlist]_vars

\* C4 witness: the same packet is being applied a second time to a table
\* that also holds another device.
C4_Witness ==
    /\ SamePacketAgain
    /\ Cardinality(DOMAIN discoverlist) = 2
    /\ \E i, j \in DOMAIN decoded : i < j /\ decoded[i] = decoded[j] /\ decoded[j] = updMsg

\* request i of /discover finishes a range loop that no map write overlapped
DiscoverReturns(i) ==
    /\ disc[i].pc = "reading"
    /\ ~disc[i].raced
    /\ disc'[i].pc = "done"

\* C5: for an empty Device Table, Discover returns the empty JSON array.
C5_EmptyManifestIsArray ==
    [][\A i \in DOMAIN disc :
         (DiscoverReturns(i) /\ DOMAIN discoverlist = {})
            => /\ disc'[i].code = StatusOK
               /\ disc'[i].body = [kind |-> "array", items |-> <<>>]]_vars

\* the number a string of decimal digits denotes, -1 if it is none
DecimalDigits == <<"0", "1", "2", "3", "4", "5", "6", "7", "8", "9">>

RECURSIVE ParseDecimal(_)
ParseDecimal(str) ==
    LET last == SubSeq(str, Len(str), Len(str))
        digit == { d \in 0..9 : DecimalDigits[d + 1] = last }
    IN  IF Len(str) = 0 \/ digit = {} THEN -1
        ELSE IF Len(str) = 1 THEN CHOOSE d \in digit : TRUE
        ELSE IF ParseDecimal(SubSeq(str, 1, Len(str) - 1)) < 0 THEN -1
        ELSE 10 * ParseDecimal(SubSeq(str, 1, Len(str) - 1)) + (CHOOSE d \in digit : TRUE)

\* the manifest `items` has exactly one entry for every record of `table`,
\* labelled as the manifest format prescribes
ManifestMatches(items, table) ==
    /\ Len(items) = Cardinality(DOMAIN table)
    /\ \A k \in DOMAIN table :
         \E n \in DOMAIN items :
            /\ items[n].labels["__mac_address"] = k
            /\ items[n].labels["__metrics_path__"] = "/device_by_mac/" \o k
            /\ items[n].labels["instance"] = table[k].SourceIP
            /\ ParseDecimal(items[n].labels["__device_type"]) = table[k].DeviceType
            /\ items[n].targets = <<LocalAddress>>
            /\ \A m \in DOMAIN items :
                 items[m].labels["__mac_address"] = k => m = n

\* C6: Discover emits exactly one manifest entry per Device Table record,
\* with __mac_address the key, __metrics_path__ "/device_by_mac/<key>",
\* instance the source address, __device_type the device type in decimal
\* and targets the exporter's own address alone.  (Stated of the range
\* loops no map write overlaps; the overlapping ones are the subject of C2.)
C6_ManifestEntryPerRecord ==
    [][\A i \in DOMAIN disc :
         DiscoverReturns(i) => ManifestMatches(disc'[i].body.items, discoverlist)]_vars

\* C6 witness: a manifest of two entries has been served for a table of two
\* devices, one of them with device type 255.
C6_Witness ==
    \E i \in DOMAIN disc :
        /\ disc[i].pc = "done"
        /\ ~disc[i].raced
        /\ Len(disc[i].body.items) = 2
        /\ ManifestMatches(disc[i].body.items, discoverlist)
        /\ \E n \in 1..2 : disc[i].body.items[n].labels["__device_type"] = "255"

\* request i on /device_by_mac finishes a map read that no map write overlapped
LookupReturns(i) ==
    /\ req[i].pc = "lookup"
    /\ ~req[i].raced
    /\ req'[i].pc # "lookup"

\* C7: TargetByMacaddr returns "" for a hardware address the table does not
\* hold, and for one it holds the source address of the current record,
\* which is that of the last packet decoded for the address once all its
\* packets have passed through the queue.  (Stated of the map reads no map
\* write overlaps; the overlapping ones are the subject of C2.)
C7_LookupReturnsCurrentSource ==
    [][\A i \in DOMAIN req :
         LookupReturns(i) =>
            LET k == req[i].macaddr IN
            /\ k \notin DOMAIN discoverlist => req'[i].target = ""
            /\ k \in DOMAIN discoverlist => req'[i].target = discoverlist[k].SourceIP
            /\ (k \in DecodedKeys /\ PassedThrough(k))
                  => req'[i].target = decoded[LastDecoded(k)].SourceIP]_vars

\* C7 witness: one lookup of an unknown address has returned "", and one
\* lookup of a known address has returned the source address of the second
\* packet of that device, which differs from the first.
C7_Witness ==
    \E i, j \in DOMAIN req :
        /\ req[i].route = "bymac" /\ req[i].pc = "done" /\ ~req[i].raced
        /\ req[i].macaddr \notin DOMAIN discoverlist /\ req[i].target = ""
        /\ req[j].route = "bymac" /\ req[j].pc = "scraping" /\ ~req[j].raced
        /\ req[j].macaddr \in DOMAIN discoverlist
        /\ Len(decoded) >= 2
        /\ PassedThrough(req[j].macaddr)
        /\ req[j].target = decoded[2].SourceIP
        /\ decoded[1].SourceIP # decoded[2].SourceIP

\* request i enters scrapeHandler in this step
EntersScrapeHandler(i) ==
    /\ req[i].pc \in {"idle", "lookup"}
    /\ req'[i].pc \notin {"idle", "lookup"}

\* C8: a scrape request whose target parameter is empty or missing ends at
\* once with 400: the Device Client is not called, no registry is served
\* and both counter collections stay as they are; the request does nothing
\* after that.
C8_EmptyTargetBadRequest ==
    [][\A i \in DOMAIN req :
         /\ (EntersScrapeHandler(i) /\ QueryGet(req'[i].query) = "")
               => /\ req'[i].pc = "done"
                  /\ req'[i].code = StatusBadRequest
                  /\ req'[i].calls = 0
                  /\ ~req'[i].registry
                  /\ UNCHANGED counterVars
         /\ (req[i].pc = "done" /\ req[i].code = StatusBadRequest)
               => req'[i] = req[i]]_vars

\* C8 witness: a request without a target parameter and a request with an
\* empty one have both been answered 400 without a Device Client call.
C8_Witness ==
    \E i, j \in DOMAIN req :
        /\ req[i].route = "device" /\ req[i].query = <<>>
        /\ req[j].route = "device" /\ req[j].query = <<"">>
        /\ \A n \in {i, j} :
              /\ req[n].pc = "done"
              /\ req[n].code = StatusBadRequest
              /\ req[n].calls = 0
        /\ \A l \in DOMAIN mystromRequestsCounterVec : mystromRequestsCounterVec[l] = 0

\* a finished scrape of a non-empty target has served a registry or
\* answered 500, and not both
OneOutcome(i) ==
    (req[i].pc = "done" /\ req[i].target # "")
       => /\ req[i].registry \/ req[i].code = StatusInternalServerError
          /\ ~(req[i].registry /\ req[i].code = StatusInternalServerError)
          /\ req[i].calls = 1

\* the steps of the registry outcome: the elapsed time is added under the
\* target and nothing else is counted; then (target, OK) grows by one and
\* nothing else is counted
RegistryOutcomeCounts(i) ==
    /\ (req[i].pc = "scraping" /\ req'[i].pc = "counted")
          => /\ \A t \in Targets :
                  mystromDurationCounterVec'[t] =
                      mystromDurationCounterVec[t]
                          + (IF t = req[i].target THEN req'[i].duration ELSE 0)
             /\ UNCHANGED mystromRequestsCounterVec
    /\ (req[i].pc = "counted" /\ req'[i].pc = "done")
          => /\ req'[i].registry
             /\ \A t \in Targets, st \in Statuses :
                  mystromRequestsCounterVec'[<<t, st>>] =
                      mystromRequestsCounterVec[<<t, st>>]
                          + (IF t = req[i].target /\ st = OK THEN 1 ELSE 0)
             /\ UNCHANGED mystromDurationCounterVec

\* C9: a scrape of a non-empty target ends with exactly one of a served
\* registry and a 500 error; on the registry outcome the duration counter
\* of the target grows by the elapsed time, the (target, OK) request
\* counter by one, and no error counter changes.
C9_RegistryOrError ==
    /\ [](\A i \in DOMAIN req : OneOutcome(i))
    /\ [][\A i \in DOMAIN req : RegistryOutcomeCounts(i)]_vars

\* C9 witness: one scrape has served a registry after a call that took time,
\* and one has ended with 500.
C9_Witness ==
    \E i, j \in DOMAIN req :
        /\ req[i].pc = "done" /\ req[i].registry /\ req[i].code = 0
        /\ req[i].duration > 0
        /\ mystromDurationCounterVec[req[i].target] >= req[i].duration
        /\ mystromRequestsCounterVec[<<req[i].target, OK>>] = 1
        /\ req[j].pc = "done" /\ ~req[j].registry
        /\ req[j].code = StatusInternalServerError

ErrorStatuses == { ErrorSocket, ErrorTimeout, ErrorParsingValue }

\* the counter cells whose value changes in this step
ChangedRequestCounters ==
    { l \in DOMAIN mystromRequestsCounterVec :
        mystromRequestsCounterVec'[l] # mystromRequestsCounterVec[l] }

\* C10: a failed fetch is counted under exactly one of the three error
\* kinds: parse-error exactly when the error text carries neither marker,
\* socket-error or timeout only when it carries that kind's marker; only
\* the (target, kind) request counter changes, by one; the duration counter
\* does not change; the 500 response names the target and the cause.
C10_FailureClassifiedOnce ==
    [][\A i \in DOMAIN req :
         (req[i].pc = "scraping" /\ req'[i].code = StatusInternalServerError)
            => \E kind \in ErrorStatuses :
                 /\ ChangedRequestCounters = { <<req[i].target, kind>> }
                 /\ mystromRequestsCounterVec'[<<req[i].target, kind>>] =
                       mystromRequestsCounterVec[<<req[i].target, kind>>] + 1
                 /\ kind = ErrorSocket
                       => Contains(req'[i].err, "unable to connect with target")
                 /\ kind = ErrorTimeout => Contains(req'[i].err, "i/o timeout")
                 /\ kind = ErrorParsingValue
                       <=> /\ ~Contains(req'[i].err, "unable to connect with target")
                           /\ ~Contains(req'[i].err, "i/o timeout")
                 /\ UNCHANGED mystromDurationCounterVec
                 /\ req'[i].pc = "done"
                 /\ ~req'[i].registry
                 /\ Contains(req'[i].body, "'" \o req[i].target \o "'")
                 /\ Contains(req'[i].body, req'[i].err)]_vars

\* C10 witness: an error carrying both markers has been counted once, as a
\* socket error, and an error carrying neither as a parse error.
C10_Witness ==
    \E i, j \in DOMAIN req :
        /\ req[i].pc = "done" /\ req[i].code = StatusInternalServerError
        /\ Contains(req[i].err, "unable to connect with target")
        /\ Contains(req[i].err, "i/o timeout")
        /\ mystromRequestsCounterVec[<<req[i].target, ErrorSocket>>] = 1
        /\ mystromRequestsCounterVec[<<req[i].target, ErrorTimeout>>] = 0
        /\ req[j].pc = "done" /\ req[j].code = StatusInternalServerError
        /\ ~Contains(req[j].err, "unable to connect with target")
        /\ ~Contains(req[j].err, "i/o timeout")
        /\ mystromRequestsCounterVec[<<req[j].target, ErrorParsingValue>>] = 1

\* the finished scrapes of target t that ended with status st: a served
\* registry is OK, a 500 carries the kind its error text is classified as
CompletedWith(t, st) ==
    { i \in DOMAIN req :
        /\ req[i].pc = "done"
        /\ req[i].target = t
        /\ IF st = OK THEN req[i].registry
           ELSE /\ req[i].code = StatusInternalServerError
                /\ st = (IF Contains(req[i].err, "unable to connect with target")
                         THEN ErrorSocket
                         ELSE IF Contains(req[i].err, "i/o timeout")
                         THEN ErrorTimeout
                         ELSE ErrorParsingValue) }

\* the finished scrapes that had a target
CompletedScrapes == { i \in DOMAIN req : req[i].pc = "done" /\ req[i].target # "" }

RECURSIVE SumOver(_, _)
SumOver(f, S) ==
    IF S = {} THEN 0
    ELSE LET x == CHOOSE y \in S : TRUE IN f[x] + SumOver(f, S \ {x})

\* C11: no counter update is lost under any interleaving of scrapes: every
\* (target, status) request counter equals the number of finished scrapes
\* of that target with that status, and the request counters add up to the
\* number of finished scrapes with a non-empty target.
C11_NoLostCounterUpdate ==
    /\ \A t \in Targets, st \in Statuses :
          mystromRequestsCounterVec[<<t, st>>] = Cardinality(CompletedWith(t, st))
    /\ SumOver(mystromRequestsCounterVec, DOMAIN mystromRequestsCounterVec)
          = Cardinality(CompletedScrapes)

\* C11 witness: two scrapes of one target have both ended with a served
\* registry, and a counter of that target stands at two.
C11_Witness ==
    \E i, j \in DOMAIN req :
        /\ i # j
        /\ req[i].pc = "done" /\ req[j].pc = "done"
        /\ req[i].target = req[j].target /\ req[i].target # ""
        /\ req[i].registry /\ req[j].registry
        /\ mystromRequestsCounterVec[<<req[i].target, OK>>] = 2

\* the packets on their way from listen to the table, oldest first
InFlight ==
    (IF updPc \in {"got", "writing"} THEN <<updMsg>> ELSE <<>>)
        \o channel
        \o (IF listenPc = "send" THEN <<message>> ELSE <<>>)

\* what a step may do while listen is blocked on the full channel: listen
\* stays on its send with its packet, and the channel is left alone or
\* loses its oldest packet to update
BlockedWhileFull ==
    (Len(channel) = ChanCap /\ listenPc = "send")
       => /\ listenPc' = "send"
          /\ message' = message
          /\ channel' = channel \/ (channel' = Tail(channel) /\ updMsg' = Head(channel))

\* a send completes only into a channel with room, at its end
SendAppends ==
    (listenPc = "send" /\ listenPc' = "read")
       => /\ Len(channel) < ChanCap
          /\ channel' = Append(channel, message)

\* C12: the channel never holds more than its capacity of 10 packets; on a
\* full channel listen blocks with its packet (nothing is dropped or
\* overwritten) until update has taken one; the packets in flight are
\* always the latest decoded ones in the order they were decoded, so they
\* leave the channel in the order they entered it.
C12_BoundedBlockingFifo ==
    /\ [](/\ Len(channel) <= ChanCap
          /\ Len(InFlight) <= Len(decoded)
          /\ InFlight = SubSeq(decoded, Len(decoded) - Len(InFlight) + 1, Len(decoded)))
    /\ [][BlockedWhileFull /\ SendAppends]_vars

\* C12 witness: the channel is full of packets from both addresses and
\* listen is blocked on the send of an eleventh packet.
C12_Witness ==
    /\ Len(channel) = ChanCap
    /\ listenPc = "send"
    /\ Len(decoded) = ChanCap + 1
    /\ \E i, j \in DOMAIN channel : channel[i] # channel[j]

\* C13: once ConnClose has closed the socket no packet is processed any more:
\* the Device Table is never changed again, not even by a packet that was
\* already read or queued, and a stopped receive loop stays stopped.
C13_NoProcessingAfterStop ==
    [][(initialized /\ ~connOpen)
         => /\ discoverlist' = discoverlist
            /\ (listenPc = "stopped" => listenPc' = "stopped")]_vars

\* the number of decoded packets update has written to the table
Applied == Len(decoded) - Len(InFlight)

\* the n-th decoded packet has been written, and the table holds it or a
\* later packet of the same hardware address
Reflected(n) ==
    /\ n <= Applied
    /\ MacKey(decoded[n]) \in DOMAIN discoverlist
    /\ \E m \in n..Applied :
          /\ MacKey(decoded[m]) = MacKey(decoded[n])
          /\ discoverlist[MacKey(decoded[n])] = decoded[m]

\* the process is up and the interrupt has not closed the socket
ListenerRunning == proc = "running" /\ connOpen

\* the manifest `items` has an entry for key k of `table` with the record's
\* device type and source address
ManifestHas(items, table, k) ==
    \E n \in DOMAIN items :
        /\ items[n].labels["__mac_address"] = k
        /\ ParseDecimal(items[n].labels["__device_type"]) = table[k].DeviceType
        /\ items[n].labels["instance"] = table[k].SourceIP

\* C14: while the listener runs and listen and update are scheduled fairly,
\* every decoded datagram is eventually in the Device Table under its
\* hardware address, with its device type and source address, unless a later
\* packet of the same address has replaced it; and a /discover request that
\* reads the table then has an entry for every key of the table with the
\* record's device type and instance.  (Stated of the range loops no map
\* write overlaps; the overlapping ones are the subject of C2.)
C14_EndToEndDelivery ==
    /\ \A n \in 1..MaxDatagrams :
          (Len(decoded) >= n) ~> (~ListenerRunning \/ Reflected(n))
    /\ [][\A i \in DOMAIN disc :
            DiscoverReturns(i)
               => \A k \in DOMAIN discoverlist :
                     ManifestHas(disc'[i].body.items, discoverlist, k)]_vars

\* C14 witness: the packet {1,2,3,4,5,6,2} from 10.0.0.5:1234 is in the
\* table under 01:02:03:04:05:06 with device type 2 and source 10.0.0.5, and
\* a /discover request has been answered with an entry for it.
C14_Witness ==
    /\ ListenerRunning
    /\ Len(decoded) >= 1
    /\ Reflected(1)
    /\ "01:02:03:04:05:06" \in DOMAIN discoverlist
    /\ discoverlist["01:02:03:04:05:06"] =
          [SourceIP |-> "10.0.0.5", Port |-> 1234,
           MacAddress |-> <<1, 2, 3, 4, 5, 6>>, DeviceType |-> 2]
    /\ \E i \in DOMAIN disc :
          /\ disc[i].pc = "done"
          /\ ~disc[i].raced
          /\ \E n \in DOMAIN disc[i].body.items :
                /\ disc[i].body.items[n].labels["__mac_address"] = "01:02:03:04:05:06"
                /\ disc[i].body.items[n].labels["__device_type"] = "2"
                /\ disc[i].body.items[n].labels["instance"] = "10.0.0.5"

\* what the device path does with a request for `target`, whatever the
\* request's route: 400 without a target, one Device Client call with one
DevicePathOf(r, target) ==
    IF target = ""
    THEN [r EXCEPT !.query = <<target>>, !.target = target, !.pc = "done",
                   !.code = StatusBadRequest,
                   !.body = "'target' parameter must be specified"]
    ELSE [r EXCEPT !.query = <<target>>, !.target = target, !.pc = "scraping",
                   !.calls = 1]

\* C15: a /device_by_mac/{macaddr} request behaves as a device-path scrape
\* of the address the lookup returns: for a known hardware address the
\* Device Client is called once, with the table's current source address
\* for the key, whatever target the request's own query named; for an
\* unknown one the request ends with 400 and the Device Client is not
\* called.  (Stated of the map reads no map write overlaps.)
C15_ByMacIsDeviceScrapeOfLookup ==
    [][\A i \in DOMAIN req :
         LookupReturns(i) =>
            LET k == req[i].macaddr IN
            IF k \in DOMAIN discoverlist
            THEN /\ req'[i].pc = "scraping"
                 /\ req'[i].calls = 1
                 /\ req'[i].target = discoverlist[k].SourceIP
                 /\ req'[i] = DevicePathOf(req[i], discoverlist[k].SourceIP)
            ELSE /\ req'[i].pc = "done"
                 /\ req'[i].calls = 0
                 /\ req'[i].code = StatusBadRequest
                 /\ req'[i] = DevicePathOf(req[i], "")]_vars

\* C15 witness: a by-mac request for a known device, whose own query named
\* another target, has been scraped at the device's source address and
\* served, and a by-mac request for an unknown device has ended with 400.
C15_Witness ==
    \E i, j \in DOMAIN req :
        /\ req[i].route = "bymac" /\ ~req[i].raced
        /\ req[i].macaddr \in DOMAIN discoverlist
        /\ req[i].target = discoverlist[req[i].macaddr].SourceIP
        /\ req[i].target # "10.0.0.9"
        /\ req[i].calls = 1 /\ req[i].pc = "done" /\ req[i].registry
        /\ req[j].route = "bymac" /\ ~req[j].raced
        /\ req[j].macaddr \notin DOMAIN discoverlist
        /\ req[j].pc = "done" /\ req[j].code = StatusBadRequest /\ req[j].calls = 0

\* update takes a packet from the channel in this step
Dequeues == updPc = "recv" /\ updPc' = "got"

\* update completes the map assignment of the packet it holds in this step
Writes == updPc = "writing" /\ updPc' = "recv"

\* C16: the update loop is the only writer of the Device Table.  The table
\* changes in no step but the one map assignment update makes for the
\* packet it has dequeued, which sets the packet's own key to the packet and
\* leaves every other key alone; between two dequeues there is exactly one
\* such assignment.
C16_UpdateIsOnlyWriter ==
    [][/\ ~Writes => discoverlist' = discoverlist
       /\ Writes =>
             /\ DOMAIN discoverlist' = (DOMAIN discoverlist) \cup {MacKey(updMsg)}
             /\ discoverlist'[MacKey(updMsg)] = updMsg
             /\ \A k \in DOMAIN discoverlist :
                   k # MacKey(updMsg) => discoverlist'[k] = discoverlist[k]
       /\ Dequeues => Applied' = Applied
       /\ Writes => Applied' = Applied + 1
       /\ (~Writes /\ ~Dequeues) => (updMsg' = updMsg /\ Applied' = Applied)]_vars

\* C16 witness: both devices have been written, the interrupt has closed the
\* socket, and a /discover request, a by-mac request for an unknown address
\* and a device scrape have all been answered.
C16_Witness ==
    /\ Cardinality(DOMAIN discoverlist) = 2
    /\ Applied >= 2
    /\ ~connOpen
    /\ \E i \in DOMAIN disc : disc[i].pc = "done"
    /\ \E i, j \in DOMAIN req :
          /\ req[i].route = "bymac" /\ req[i].pc = "done"
          /\ req[i].macaddr \notin DOMAIN discoverlist
          /\ req[j].route = "device" /\ req[j].pc = "done"

\* C17: the Device Table only grows or overwrites.  No step removes a key,
\* every record is stored under the string form of its own hardware
\* address, and no two keys hold records of the same hardware address.
C17_TableOnlyGrows ==
    /\ [][initialized => (DOMAIN discoverlist) \subseteq (DOMAIN discoverlist')]_vars
    /\ [](\A k \in DOMAIN discoverlist :
             /\ HardwareAddrString(discoverlist[k].MacAddress) = k
             /\ \A j \in DOMAIN discoverlist :
                   discoverlist[j].MacAddress = discoverlist[k].MacAddress => j = k)

\* C17 witness: two devices are in the table, one of them written twice, the
\* interrupt has closed the socket and requests have read the table.
C17_Witness ==
    /\ Cardinality(DOMAIN discoverlist) = 2
    /\ Applied = 3
    /\ mainPc = "closed"
    /\ \E i \in DOMAIN disc : disc[i].pc = "done" /\ Len(disc[i].body.items) = 2
    /\ \E i \in DOMAIN req : req[i].route = "bymac" /\ req[i].pc = "done"

\* the process ends through the deferred os.Exit(0) in this step
Terminates == proc = "running" /\ proc' = "exited"

\* C18: shutdown on an interrupt is orderly.  With discovery enabled the
\* process ends only after ConnClose has closed the discovery socket, the
\* exit itself changes nothing else, and the process is never found ended
\* on this path with the socket open.  (The program keeps no persistent
\* state: none of its variables outlives the process.)
C18_OrderlyShutdown ==
    /\ [][Terminates =>
             /\ enableDiscovery => (mainPc = "closed" /\ ~connOpen)
             /\ ~enableDiscovery => mainPc = "serving"
             /\ discoverlist' = discoverlist
             /\ connOpen' = connOpen]_vars
    /\ [](proc = "exited" => ~connOpen)

\* C18 witness: a process with discovery enabled that has put a device in
\* its table has been interrupted and has ended.
C18_Witness ==
    /\ proc = "exited"
    /\ enableDiscovery
    /\ initialized
    /\ mainPc = "closed"
    /\ ~connOpen
    /\ DOMAIN discoverlist # {}

\* listen has read a datagram of 7 bytes or more in this step
ReadsLongDatagram == nRead' = nRead + 1 /\ Len(datagram') >= 7

\* C19: decoding depends only on the first 7 bytes of a datagram and on its
\* sender.  The record decoded from a datagram of 7 bytes or more has bytes
\* 1..6 as hardware address, the value 0..255 of byte 7 as device type and
\* the sender's address and port; it is the record any datagram with the
\* same first 7 bytes gives for the same sender.
C19_DecodeFirstSevenBytes ==
    [][ReadsLongDatagram =>
          /\ message'.MacAddress = SubSeq(datagram', 1, 6)
          /\ message'.DeviceType = datagram'[7]
          /\ message'.DeviceType \in 0..255
          /\ message'.SourceIP = udpaddr'.IP
          /\ message'.Port = udpaddr'.Port
          /\ decoded' = Append(decoded, message')
          /\ \A bytes \in Datagrams :
                (Len(bytes) >= 7 /\ SubSeq(bytes, 1, 7) = SubSeq(datagram', 1, 7))
                   => Decode(bytes, udpaddr') = message']_vars

\* C19 witness: a datagram with byte 7 = 255 has been decoded into device
\* type 255, and the datagram {1,2,3,4,5,6,2,9} of 10.0.0.5:1234, read last,
\* into the record the preceding datagram of that device and sender gave.
C19_Witness ==
    /\ Len(decoded) = 3
    /\ decoded[1].DeviceType = 255
    /\ decoded[2] = decoded[3]
    /\ decoded[3] = [SourceIP |-> "10.0.0.5", Port |-> 1234,
                     MacAddress |-> <<1, 2, 3, 4, 5, 6>>, DeviceType |-> 2]
    /\ datagram = <<1, 2, 3, 4, 5, 6, 2, 9>>
    /\ udpaddr = [IP |-> "10.0.0.5", Port |-> 1234]
    /\ message = decoded[3]

\* Initialize has made the table and bound the socket of a process started
\* with discovery enabled
DiscoveryStarted == enableDiscovery /\ initialized

\* C20: the discovery operations run only after discovery start-up.  The
\* /discover and /device_by_mac routes exist, Discover ranges over the
\* table, TargetByMacaddr reads it and ConnClose closes the socket only in a
\* process started with discovery enabled and only after Initialize; a
\* process started with discovery disabled never initialises, never opens
\* the socket and never runs one of the three.
C20_DiscoveryOnlyAfterStartup ==
    /\ [](/\ (routes \cap {"bymac", "discover"} # {}) => DiscoveryStarted
          /\ \A i \in DOMAIN disc :
                (disc[i].pc = "reading" \/ disc[i].code = StatusOK) => DiscoveryStarted
          /\ \A i \in DOMAIN req :
                (req[i].pc = "lookup"
                    \/ (req[i].route = "bymac" /\ req[i].code # StatusNotFound))
                  => DiscoveryStarted
          /\ mainPc = "closed" => DiscoveryStarted
          /\ connOpen => DiscoveryStarted
          /\ initialized => enableDiscovery)
    /\ [][(mainPc # "closed" /\ mainPc' = "closed") => (DiscoveryStarted /\ connOpen)]_vars

\* C20 witness: in a process started with discovery enabled a /discover
\* request has been answered from the table, a by-mac request has looked its
\* device up and ConnClose has closed the socket.
C20_Witness ==
    /\ DiscoveryStarted
    /\ mainPc = "closed"
    /\ ~connOpen
    /\ \E i \in DOMAIN disc : disc[i].pc = "done" /\ disc[i].code = StatusOK
    /\ \E i \in DOMAIN req :
          /\ req[i].route = "bymac"
          /\ req[i].pc = "scraping"
          /\ req[i].target = "10.0.0.5"

\* the same process started with discovery disabled: both discovery paths
\* have answered 404 and the process has ended without ConnClose
C20_DisabledReached ==
    /\ ~enableDiscovery
    /\ proc = "exited"
    /\ mainPc = "serving"
    /\ \E i \in DOMAIN disc : disc[i].code = StatusNotFound
    /\ \E i \in DOMAIN req : req[i].route = "bymac" /\ req[i].code = StatusNotFound

====
